---- MODULE Spec2Model ----
(***************************************************************************)
(* The expression engine of src/app.js: the Stack and Queue containers,    *)
(* ShuntingYard.makeString (tokenizer), compute_infix (infix to postfix),  *)
(* compute_rpn (postfix evaluation), clear, and the calculate() pipeline.  *)
(*                                                                         *)
(* A JavaScript string is a sequence of one-character strings; the words   *)
(* "undefined", "Infinity" and "NaN" stand for their letters.  A number is *)
(* a pair <<n, d>>: n/d in lowest terms with d > 0 when finite, <<1, 0>>   *)
(* for Infinity, <<-1, 0>> for -Infinity and <<0, 0>> for NaN.  Doubles    *)
(* are taken as exact rationals (no rounding, no overflow).  Zero carries  *)
(* no sign: every operand compute_rpn reads was parsed from a string, and  *)
(* toString prints -0 as "0", so no operation of the code ever sees -0.    *)
(***************************************************************************)
EXTENDS Integers, Sequences, FiniteSets, TLC

\* Longest input string enumerated exhaustively.
MaxLen == 3
\* Longest token sequence enumerated exhaustively (well-formed or not).
MaxTokens == 4
\* Most operands of the generated well-formed infix expressions.
MaxOperands == 3
\* Most pairs of parentheses of the generated well-formed infix expressions.
MaxPairs == 1
\* Entries of the output queue after which a runaway loop is no longer followed.
MaxQueue == 8

Digits == {"0", "1", "2", "3", "4", "5", "6", "7", "8", "9"}
Operators == {"+", "-", "*", "/"}
Parens == {"(", ")"}

\* The value JavaScript reads from an empty stack, an empty queue or an array hole.
Undefined == <<"undefined">>

----------------------------------------------------------------------------
(* Numbers *)

NaN == <<0, 0>>
\* No number: compute_rpn has not returned.
NoValue == <<0, -1>>
PosInf == <<1, 0>>
NegInf == <<-1, 0>>

Abs(x) == IF x < 0 THEN -x ELSE x
Sgn(x) == IF x < 0 THEN -1 ELSE IF x > 0 THEN 1 ELSE 0

RECURSIVE GCD(_, _)
GCD(a, b) == IF b = 0 THEN a ELSE GCD(b, a % b)

\* n/d in lowest terms, d > 0.
Norm(n, d) == LET g == GCD(Abs(n), d) IN <<Sgn(n) * (Abs(n) \div g), d \div g>>

Num(n) == <<n, 1>>
IsNaNValue(v) == v = NaN
IsInfinite(v) == v[2] = 0 /\ v[1] # 0
IsZero(v) == v[1] = 0 /\ v[2] # 0

\* a + b on doubles
Add(x, y) ==
    IF IsNaNValue(x) \/ IsNaNValue(y) THEN NaN
    ELSE IF IsInfinite(x) /\ IsInfinite(y) THEN (IF x = y THEN x ELSE NaN)
    ELSE IF IsInfinite(x) THEN x
    ELSE IF IsInfinite(y) THEN y
    ELSE Norm(x[1] * y[2] + y[1] * x[2], x[2] * y[2])

Neg(x) == <<-x[1], x[2]>>

\* a - b on doubles
Sub(x, y) == Add(x, Neg(y))

\* a * b on doubles
Mul(x, y) ==
    IF IsNaNValue(x) \/ IsNaNValue(y) THEN NaN
    ELSE IF IsInfinite(x) \/ IsInfinite(y)
         THEN (IF IsZero(x) \/ IsZero(y) THEN NaN ELSE <<Sgn(x[1]) * Sgn(y[1]), 0>>)
    ELSE Norm(x[1] * y[1], x[2] * y[2])

\* a / b on doubles: x/0 is an infinity of x's sign, 0/0 and Infinity/Infinity are NaN.
Div(x, y) ==
    IF IsNaNValue(x) \/ IsNaNValue(y) THEN NaN
    ELSE IF IsInfinite(y) THEN (IF IsInfinite(x) THEN NaN ELSE Num(0))
    ELSE IF IsZero(y) THEN (IF IsZero(x) THEN NaN ELSE <<Sgn(x[1]), 0>>)
    ELSE IF IsInfinite(x) THEN <<Sgn(x[1]) * Sgn(y[1]), 0>>
    ELSE Norm(x[1] * y[2] * Sgn(y[1]), x[2] * Abs(y[1]))

----------------------------------------------------------------------------
(* Strings and numbers *)

DigitValue(c) ==
    CASE c = "0" -> 0 [] c = "1" -> 1 [] c = "2" -> 2 [] c = "3" -> 3 [] c = "4" -> 4
      [] c = "5" -> 5 [] c = "6" -> 6 [] c = "7" -> 7 [] c = "8" -> 8 [] c = "9" -> 9

DigitChar(n) ==
    CASE n = 0 -> "0" [] n = 1 -> "1" [] n = 2 -> "2" [] n = 3 -> "3" [] n = 4 -> "4"
      [] n = 5 -> "5" [] n = 6 -> "6" [] n = 7 -> "7" [] n = 8 -> "8" [] n = 9 -> "9"

AllDigits(str) == \A i \in 1..Len(str) : str[i] \in Digits

\* The natural number a string of decimal digits denotes (0 for the empty string).
RECURSIVE ParseDigits(_)
ParseDigits(str) ==
    IF str = <<>> THEN 0
    ELSE 10 * ParseDigits(SubSeq(str, 1, Len(str) - 1)) + DigitValue(str[Len(str)])

\* The decimal digits of a natural number.
RECURSIVE ToDigits(_)
ToDigits(n) == IF n < 10 THEN <<DigitChar(n)>> ELSE Append(ToDigits(n \div 10), DigitChar(n % 10))

\* isNaN(x): Number(x) is NaN.  A string of digits (the empty one too) is a number;
\* undefined and any string holding another character are not.
isNaN(x) == x = Undefined \/ ~AllDigits(x)

\* Number.prototype.toString: an integer prints its digits, a fraction prints as
\* numerator "/" denominator (standing for its shortest round-trip decimal).
toString(v) ==
    IF IsNaNValue(v) THEN <<"NaN">>
    ELSE IF v = PosInf THEN <<"Infinity">>
    ELSE IF v = NegInf THEN <<"-", "Infinity">>
    ELSE (IF v[1] < 0 THEN <<"-">> ELSE <<>>)
         \o ToDigits(Abs(v[1]))
         \o (IF v[2] = 1 THEN <<>> ELSE <<"/">> \o ToDigits(v[2]))

\* The index of the first "/" of a string, 0 when it has none.
SlashAt(str) ==
    IF \E i \in 1..Len(str) : str[i] = "/"
    THEN CHOOSE i \in 1..Len(str) : str[i] = "/" /\ \A j \in 1..(i - 1) : str[j] # "/"
    ELSE 0

\* parseFloat of an unsigned string.
ParseUnsigned(str) ==
    IF str = <<"Infinity">> THEN PosInf
    ELSE IF str = <<>> THEN NaN
    ELSE IF AllDigits(str) THEN Num(ParseDigits(str))
    ELSE LET k == SlashAt(str)
             num == SubSeq(str, 1, k - 1)
             den == SubSeq(str, k + 1, Len(str))
         IN IF k > 1 /\ k < Len(str) /\ AllDigits(num) /\ AllDigits(den) /\ ParseDigits(den) > 0
            THEN Norm(ParseDigits(num), ParseDigits(den))
            ELSE NaN

\* parseFloat(x): NaN for undefined and for a string that starts with no number.
parseFloat(x) ==
    IF x = Undefined \/ x = <<>> THEN NaN
    ELSE IF x[1] = "-" THEN Neg(ParseUnsigned(Tail(x)))
    ELSE ParseUnsigned(x)

----------------------------------------------------------------------------
(* Stack and Queue: the array is a sequence, the top of a stack its last element *)

isEmpty(array) == Len(array) = 0

\* Stack.push, Queue.enqueue
push(array, value) == Append(array, value)

\* Stack.peek: the last element, undefined when there is none.
peek(array) == IF Len(array) = 0 THEN Undefined ELSE array[Len(array)]

\* Stack.pop returns the last element, or undefined (removing nothing) when empty.
pop(array) == IF isEmpty(array) THEN Undefined ELSE array[Len(array)]
AfterPop(array) == IF isEmpty(array) THEN array ELSE SubSeq(array, 1, Len(array) - 1)

\* Queue.dequeue returns the first element.
dequeue(array) == IF isEmpty(array) THEN Undefined ELSE Head(array)
AfterDequeue(array) == IF isEmpty(array) THEN array ELSE Tail(array)

----------------------------------------------------------------------------
(* ShuntingYard.makeString *)

\* temp[index] of a JavaScript array (index from 0): undefined past the end.
TempAt(temp, index) == IF index < Len(temp) THEN temp[index + 1] ELSE Undefined

\* temp[index] = value: an index past the end lengthens the array, leaving holes.
TempSet(temp, index, value) ==
    IF index < Len(temp) THEN [temp EXCEPT ![index + 1] = value]
    ELSE temp \o [k \in 1..(index - Len(temp)) |-> Undefined] \o <<value>>

\* The scanning loop from character i on: the array it leaves, or a TypeError when
\* a digit is to be appended to a slot that does not exist (undefined.concat).
RECURSIVE Scan(_, _, _, _)
Scan(input, i, temp, tempIndex) ==
    IF i > Len(input) THEN [threw |-> FALSE, temp |-> temp]
    ELSE LET token == <<input[i]>> IN
         IF ~isNaN(token)
         THEN IF TempAt(temp, tempIndex) = Undefined
              THEN [threw |-> TRUE, temp |-> temp]
              ELSE Scan(input, i + 1,
                        TempSet(temp, tempIndex, TempAt(temp, tempIndex) \o token),
                        tempIndex)
         ELSE Scan(input, i + 1, TempSet(temp, tempIndex + 1, token), tempIndex + 2)

NotEmptyString(token) == token # <<>>

\* makeString with each token enqueued as soon as it is scanned: a TypeError leaves
\* the tokens scanned before it in the stream.
makeStringEager(input) ==
    LET r == Scan(input, 1, [k \in 1..Len(input) |-> <<>>], 0)
    IN [threw |-> r.threw, tokens |-> SelectSeq(r.temp, NotEmptyString)]

\* makeString(input): whether it threw, and the tokens it enqueues into the stream
\* (every entry of temp that is not "", the holes included).
makeString(input) ==
    LET r == Scan(input, 1, [k \in 1..Len(input) |-> <<>>], 0)
    IN [threw |-> r.threw,
        tokens |-> IF r.threw THEN <<>> ELSE SelectSeq(r.temp, NotEmptyString)]

----------------------------------------------------------------------------
(* ShuntingYard.getPrecedence and the loops of compute_infix *)

getPrecedence(op) ==
    IF op = <<"+">> \/ op = <<"-">> THEN 1
    ELSE IF op = <<"*">> \/ op = <<"/">> THEN 2
    ELSE -1

\* The loop condition with < for <=: operators of one precedence group to the right.
PopsForStrict(t, stack) == ~isEmpty(stack) /\ getPrecedence(t) < getPrecedence(peek(stack))

\* The loop condition of the operator branch.
PopsFor(t, stack) == ~isEmpty(stack) /\ getPrecedence(t) <= getPrecedence(peek(stack))

\* How many operators the operator branch moves from the stack to the queue.
RECURSIVE PopCount(_, _)
PopCount(t, stack) == IF PopsFor(t, stack) THEN 1 + PopCount(t, AfterPop(stack)) ELSE 0

\* The elements a stack gives when popped until empty.
RECURSIVE Drained(_)
Drained(stack) == IF isEmpty(stack) THEN <<>> ELSE <<pop(stack)>> \o Drained(AfterPop(stack))

----------------------------------------------------------------------------
(* ShuntingYard.compute_rpn *)

\* One operator applied: nothing is pushed for a token the switch has no case for.
Apply(t, a, b) ==
    CASE t = <<"-">> -> <<toString(Sub(a, b))>>
      [] t = <<"+">> -> <<toString(Add(a, b))>>
      [] t = <<"*">> -> <<toString(Mul(a, b))>>
      [] t = <<"/">> -> <<toString(Div(a, b))>>
      [] OTHER -> <<>>

\* The loop over the queue: the local stack it ends with.
RECURSIVE RpnLoop(_, _)
RpnLoop(queue, stack) ==
    IF isEmpty(queue) THEN stack
    ELSE LET t == dequeue(queue) IN
         IF ~isNaN(t) THEN RpnLoop(AfterDequeue(queue), push(stack, t))
         ELSE LET b == parseFloat(pop(stack))
                  rest == AfterPop(stack)
                  a == parseFloat(pop(rest))
              IN RpnLoop(AfterDequeue(queue), AfterPop(rest) \o Apply(t, a, b))

compute_rpn(queue) == parseFloat(pop(RpnLoop(queue, <<>>)))

----------------------------------------------------------------------------
(* Inputs *)

\* The characters of the strings enumerated exhaustively.
Alphabet == {"1", "2"} \cup Operators \cup Parens

\* Every string over the alphabet of at most MaxLen characters.
AllStrings == UNION {[1..n -> Alphabet] : n \in 0..MaxLen}

\* The expressions the documentation of the engine names.
Examples ==
    { <<"(", "2", "+", "3", ")", "*", "4">>,
      <<"2", "+", "3", "*", "4">>,
      <<"8", "-", "3", "-", "2">>,
      <<"1", "2", "+", "3", "*", "(", "4", "-", "1", ")">>,
      <<"5", "/", "0">>,
      <<"(", "1", "+", "2">>,
      <<"1", "(", "2", ")">>,
      <<"(", "(", "1", ")", ")">> }

Inputs == AllStrings \cup Examples

NumberTokens == {<<"2">>, <<"1", "0">>}
OperatorTokens == {<<c>> : c \in Operators}
TokenAlphabet == NumberTokens \cup OperatorTokens \cup {<<"(">>, <<")">>, Undefined}

\* Every token sequence of at most MaxTokens tokens, well-formed or not.
AnyTokens == UNION {[1..n -> TokenAlphabet] : n \in 0..MaxTokens}

\* operand (operator operand)*, with n operands.
RECURSIVE Flat(_)
Flat(n) ==
    IF n = 1 THEN {<<x>> : x \in NumberTokens}
    ELSE {e \o <<op, x>> : e \in Flat(n - 1), op \in OperatorTokens, x \in NumberTokens}

\* e with tokens a..b put in parentheses.
Wrap(e, a, b) ==
    SubSeq(e, 1, a - 1) \o <<(<<"(">>)>> \o SubSeq(e, a, b) \o <<(<<")">>)>>
        \o SubSeq(e, b + 1, Len(e))

\* Where a group may open (before an operand or a "(") and close (after an operand
\* or a ")").
Opens(e) == {a \in 1..Len(e) : ~isNaN(e[a]) \/ e[a] = <<"(">>}
Closes(e) == {b \in 1..Len(e) : ~isNaN(e[b]) \/ e[b] = <<")">>}

\* e with one more pair of parentheses, every way.
Wraps(e) == {Wrap(e, p[1], p[2]) : p \in {x \in Opens(e) \X Closes(e) : x[1] <= x[2]}}

\* e with at most p more pairs of parentheses.
RECURSIVE WithPairs(_, _)
WithPairs(e, p) ==
    IF p = 0 THEN {e}
    ELSE LET W == WithPairs(e, p - 1) IN W \cup UNION {Wraps(x) : x \in W}

\* The infix expressions of at most MaxOperands operands without parentheses.
FlatExpressions == UNION {Flat(n) : n \in 1..MaxOperands}

----------------------------------------------------------------------------
(* State *)

VARIABLES
    stream,   \* this.stream.array: the tokens makeString enqueued
    q,        \* this.q.array: the output queue
    s,        \* this.s.array: the operator stack
    pc,       \* where the caller or the running method is
    caller,   \* who drives the engine: "calculate", "tokens" or "api"
    output,   \* the global output: the screen's text
    ret,      \* what compute_rpn returned to the running call
    err,      \* the exception that ended the last call, "none" when there is none
    input,    \* history: the string makeString was called on
    tokens,   \* history: the stream compute_infix was called on
    postfix,  \* history: the queue compute_rpn was called on
    fed       \* history: the characters given to makeString so far

vars == <<stream, q, s, pc, caller, output, ret, err, input, tokens, postfix, fed>>

\* No method of the engine is running.
Idle == pc \in {"idle", "returned", "threw", "cleared"}

InitEngine ==
    /\ stream = <<>>
    /\ q = <<>>
    /\ s = <<>>
    /\ output = <<>>
    /\ ret = NoValue
    /\ err = "none"
    /\ input = <<>>
    /\ tokens = <<>>
    /\ postfix = <<>>
    /\ fed = 0

----------------------------------------------------------------------------
(* calculate(): makeString(output); compute_infix(); output = compute_rpn()     *)
(* .toString(); clear().  An exception leaves calculate at once.               *)

\* calculate() is called with the string in on the screen.
Begin(in) ==
    /\ input' = in
    /\ output' = in
    /\ ret' = NoValue
    /\ tokens' = <<>>
    /\ postfix' = <<>>

\* The call is over: its argument and its locals are gone.
End ==
    /\ input' = <<>>
    /\ ret' = NoValue
    /\ tokens' = <<>>
    /\ postfix' = <<>>

\* Each input with what makeString does on it.
Tokenized == {[in |-> x, made |-> makeString(x)] : x \in Inputs}

\* calculate() calls makeString(output), which returns.
CalculateMakeString ==
    \E c \in Tokenized :
        /\ caller = "calculate"
        /\ Idle
        /\ ~c.made.threw
        /\ Begin(c.in)
        /\ stream' = stream \o c.made.tokens
        /\ err' = "none"
        /\ pc' = "tokenized"
        /\ UNCHANGED <<q, s, caller, fed>>

\* calculate() calls makeString(output), which raises a TypeError, and calculate
\* ends there.
CalculateMakeStringThrows ==
    \E c \in Tokenized :
        /\ caller = "calculate"
        /\ Idle
        /\ c.made.threw
        /\ Begin(c.in)
        /\ stream' = stream \o c.made.tokens
        /\ err' = "TypeError"
        /\ pc' = "threw"
        /\ UNCHANGED <<q, s, caller, fed>>

----------------------------------------------------------------------------
(* compute_infix, one step per pass of its loops *)

\* compute_infix is entered.
CallComputeInfix ==
    /\ caller \in {"calculate", "tokens"}
    /\ pc = "tokenized"
    /\ pc' = "infix"
    /\ tokens' = stream
    /\ UNCHANGED <<stream, q, s, caller, output, ret, err, input, postfix, fed>>

\* A number goes to the output queue.
InfixNumber ==
    /\ pc = "infix"
    /\ ~isEmpty(stream)
    /\ ~isNaN(dequeue(stream))
    /\ stream' = AfterDequeue(stream)
    /\ q' = push(q, dequeue(stream))
    /\ UNCHANGED <<s, pc, caller, output, ret, err, input, tokens, postfix, fed>>

\* "(" goes on the operator stack.
InfixLeftParen ==
    /\ pc = "infix"
    /\ ~isEmpty(stream)
    /\ dequeue(stream) = <<"(">>
    /\ stream' = AfterDequeue(stream)
    /\ s' = push(s, dequeue(stream))
    /\ UNCHANGED <<q, pc, caller, output, ret, err, input, tokens, postfix, fed>>

\* ")" starts the loop that pops until "(" is on top.
InfixRightParen ==
    /\ pc = "infix"
    /\ ~isEmpty(stream)
    /\ dequeue(stream) = <<")">>
    /\ stream' = AfterDequeue(stream)
    /\ pc' = "rparen"
    /\ UNCHANGED <<q, s, caller, output, ret, err, input, tokens, postfix, fed>>

\* while (this.s.peek() !== "(") this.q.enqueue(this.s.pop()): one pass.  On an empty
\* stack peek and pop give undefined, so the pass repeats for ever; it is followed
\* until the queue holds MaxQueue entries.
RightParenPop ==
    /\ pc = "rparen"
    /\ peek(s) # <<"(">>
    /\ isEmpty(s) => Len(q) < MaxQueue
    /\ q' = push(q, pop(s))
    /\ s' = AfterPop(s)
    /\ UNCHANGED <<stream, pc, caller, output, ret, err, input, tokens, postfix, fed>>

\* "(" is on top: the loop ends and this.s.pop() discards it.
RightParenMatch ==
    /\ pc = "rparen"
    /\ peek(s) = <<"(">>
    /\ s' = AfterPop(s)
    /\ pc' = "infix"
    /\ UNCHANGED <<stream, q, caller, output, ret, err, input, tokens, postfix, fed>>

\* Any other token: pop while the top binds at least as tightly, then push it.
InfixOperator ==
    /\ pc = "infix"
    /\ ~isEmpty(stream)
    /\ LET t == dequeue(stream)
           n == PopCount(t, s)
       IN /\ isNaN(t)
          /\ t # <<"(">>
          /\ t # <<")">>
          /\ q' = q \o Drained(SubSeq(s, Len(s) - n + 1, Len(s)))
          /\ s' = push(SubSeq(s, 1, Len(s) - n), t)
    /\ stream' = AfterDequeue(stream)
    /\ UNCHANGED <<pc, caller, output, ret, err, input, tokens, postfix, fed>>

\* The stream is empty: what is left on the stack goes to the queue, and
\* compute_infix returns.
InfixDrain ==
    /\ pc = "infix"
    /\ isEmpty(stream)
    /\ q' = q \o Drained(s)
    /\ s' = <<>>
    /\ pc' = IF caller = "api" THEN "returned" ELSE "converted"
    /\ UNCHANGED <<stream, caller, output, ret, err, input, tokens, postfix, fed>>

compute_infix ==
    \/ InfixNumber
    \/ InfixLeftParen
    \/ InfixRightParen
    \/ RightParenPop
    \/ RightParenMatch
    \/ InfixOperator
    \/ InfixDrain

----------------------------------------------------------------------------
(* compute_rpn and clear *)

\* output = calculator.compute_rpn().toString()
CalculateRpn ==
    /\ caller = "calculate"
    /\ pc = "converted"
    /\ postfix' = q
    /\ q' = <<>>
    /\ ret' = compute_rpn(q)
    /\ output' = toString(compute_rpn(q))
    /\ pc' = "evaluated"
    /\ UNCHANGED <<stream, s, caller, err, input, tokens, fed>>

\* ShuntingYard.clear
clear ==
    /\ q' = <<>>
    /\ s' = <<>>
    /\ UNCHANGED stream

\* calculator.clear() ends calculate().
CalculateClear ==
    /\ caller = "calculate"
    /\ pc = "evaluated"
    /\ clear
    /\ End
    /\ pc' = "returned"
    /\ UNCHANGED <<caller, output, err, fed>>

\* The clear button: output = ""; calculator.clear().
ClearClick ==
    /\ caller = "calculate"
    /\ Idle
    /\ output' = <<>>
    /\ clear
    /\ End
    /\ err' = "none"
    /\ pc' = "cleared"
    /\ UNCHANGED <<caller, fed>>

Init ==
    /\ InitEngine
    /\ caller = "calculate"
    /\ pc = "idle"

Next ==
    \/ CalculateMakeString
    \/ CalculateMakeStringThrows
    \/ CallComputeInfix
    \/ compute_infix
    \/ CalculateRpn
    \/ CalculateClear
    \/ ClearClick

Spec == Init /\ [][Next]_vars

----------------------------------------------------------------------------
(* compute_infix and compute_rpn on tokens put into the stream by               *)
(* calculator.stream.enqueue, which reaches token sequences makeString does not *)
(* produce                                                                      *)

\* compute_rpn is called on the queue compute_infix left.
CallComputeRpn ==
    /\ caller = "tokens"
    /\ pc = "converted"
    /\ postfix' = q
    /\ q' = <<>>
    /\ ret' = compute_rpn(q)
    /\ pc' = "evaluated"
    /\ UNCHANGED <<stream, s, caller, output, err, input, tokens, fed>>

\* The stream holds any short token sequence, or a well-formed infix expression of
\* at most MaxOperands operands and MaxPairs pairs of parentheses.
InitTokens ==
    /\ \/ stream \in AnyTokens
       \/ \E e \in FlatExpressions : stream \in WithPairs(e, MaxPairs)
    /\ q = <<>>
    /\ s = <<>>
    /\ output = <<>>
    /\ ret = NoValue
    /\ err = "none"
    /\ input = <<>>
    /\ tokens = <<>>
    /\ postfix = <<>>
    /\ fed = 0
    /\ caller = "tokens"
    /\ pc = "tokenized"

NextTokens ==
    \/ CallComputeInfix
    \/ compute_infix
    \/ CallComputeRpn

SpecTokens == InitTokens /\ [][NextTokens]_vars

----------------------------------------------------------------------------
(* The methods of one engine called in any order, on strings of at most MaxLen    *)
(* characters in all                                                            *)

ApiMakeString ==
    \E in \in AllStrings :
        /\ caller = "api"
        /\ Idle
        /\ fed + Len(in) <= MaxLen
        /\ ~makeString(in).threw
        /\ fed' = fed + Len(in)
        /\ stream' = stream \o makeString(in).tokens
        /\ err' = "none"
        /\ pc' = "returned"
        /\ UNCHANGED <<q, s, caller, output, ret, input, tokens, postfix>>

ApiMakeStringThrows ==
    \E in \in AllStrings :
        /\ caller = "api"
        /\ Idle
        /\ fed + Len(in) <= MaxLen
        /\ makeString(in).threw
        /\ fed' = fed + Len(in)
        /\ stream' = stream \o makeString(in).tokens
        /\ err' = "TypeError"
        /\ pc' = "threw"
        /\ UNCHANGED <<q, s, caller, output, ret, input, tokens, postfix>>

ApiComputeInfix ==
    /\ caller = "api"
    /\ Idle
    /\ pc' = "infix"
    /\ err' = "none"
    /\ UNCHANGED <<stream, q, s, caller, output, ret, input, tokens, postfix, fed>>

\* compute_rpn empties the queue; its caller drops what it returns.
ApiComputeRpn ==
    /\ caller = "api"
    /\ Idle
    /\ q' = <<>>
    /\ err' = "none"
    /\ pc' = "returned"
    /\ UNCHANGED <<stream, s, caller, output, ret, input, tokens, postfix, fed>>

ApiClear ==
    /\ caller = "api"
    /\ Idle
    /\ clear
    /\ err' = "none"
    /\ pc' = "cleared"
    /\ UNCHANGED <<caller, output, ret, input, tokens, postfix, fed>>

InitApi ==
    /\ InitEngine
    /\ caller = "api"
    /\ pc = "idle"

NextApi ==
    \/ ApiMakeString
    \/ ApiMakeStringThrows
    \/ ApiComputeInfix
    \/ compute_infix
    \/ ApiComputeRpn
    \/ ApiClear

SpecApi == InitApi /\ [][NextApi]_vars

----------------------------------------------------------------------------
(* The reference the properties are stated against: the tokens of a string, and   *)
(* the value of an infix expression by recursive descent, * and / binding tighter *)
(* than + and -, operators of one precedence taken left to right.                *)

\* One token per maximal run of digits, one per other character.
RECURSIVE RefTokens(_)
RefTokens(str) ==
    IF str = <<>> THEN <<>>
    ELSE LET rest == RefTokens(Tail(str)) IN
         IF Head(str) \in Digits /\ rest # <<>> /\ AllDigits(rest[1])
         THEN <<(<<Head(str)>> \o rest[1])>> \o Tail(rest)
         ELSE <<(<<Head(str)>>)>> \o rest

Failed == [ok |-> FALSE, val |-> NaN, next |-> 0]

RECURSIVE RefExpr(_, _), RefExprRest(_, _), RefTerm(_, _), RefTermRest(_, _), RefFactor(_, _)

\* number | "(" expression ")"
RefFactor(e, i) ==
    IF i > Len(e) THEN Failed
    ELSE IF e[i] # Undefined /\ AllDigits(e[i])
         THEN [ok |-> TRUE, val |-> Num(ParseDigits(e[i])), next |-> i + 1]
    ELSE IF e[i] = <<"(">>
         THEN LET r == RefExpr(e, i + 1)
              IN IF r.ok /\ r.next <= Len(e) /\ e[r.next] = <<")">>
                 THEN [r EXCEPT !.next = r.next + 1]
                 ELSE Failed
    ELSE Failed

\* left (("*" | "/") factor)*
RefTermRest(e, left) ==
    IF ~left.ok \/ left.next > Len(e) \/ e[left.next] \notin {<<"*">>, <<"/">>} THEN left
    ELSE LET f == RefFactor(e, left.next + 1)
         IN IF ~f.ok THEN Failed
            ELSE RefTermRest(e, [ok |-> TRUE,
                                 val |-> IF e[left.next] = <<"*">> THEN Mul(left.val, f.val)
                                         ELSE Div(left.val, f.val),
                                 next |-> f.next])

RefTerm(e, i) == RefTermRest(e, RefFactor(e, i))

\* left (("+" | "-") term)*
RefExprRest(e, left) ==
    IF ~left.ok \/ left.next > Len(e) \/ e[left.next] \notin {<<"+">>, <<"-">>} THEN left
    ELSE LET f == RefTerm(e, left.next + 1)
         IN IF ~f.ok THEN Failed
            ELSE RefExprRest(e, [ok |-> TRUE,
                                 val |-> IF e[left.next] = <<"+">> THEN Add(left.val, f.val)
                                         ELSE Sub(left.val, f.val),
                                 next |-> f.next])

RefExpr(e, i) == RefExprRest(e, RefTerm(e, i))

\* The token sequence is an infix expression.
WellFormed(e) == LET r == RefExpr(e, 1) IN r.ok /\ r.next = Len(e) + 1

\* Its value.
RefValue(e) == RefExpr(e, 1).val

----------------------------------------------------------------------------
(* Properties *)

Str_2p3t4 == <<"(", "2", "+", "3", ")", "*", "4">>
Str_2p3x4 == <<"2", "+", "3", "*", "4">>

CountLeft(seq) == Cardinality({i \in 1..Len(seq) : seq[i] = <<"(">>})

\* C1: for a well-formed expression string the pipeline of calculate() neither
\* raises nor returns anything but the value of the expression; "(2+3)*4" gives
\* the postfix 2 3 + 4 * and 20, "2+3*4" gives 2 3 4 * + and 14.
C1_PipelineValue ==
    /\ pc = "threw" => ~WellFormed(RefTokens(input))
    /\ pc = "evaluated" /\ WellFormed(RefTokens(input))
           => ret = RefValue(RefTokens(input))
    /\ pc \in {"threw", "evaluated"} /\ input = Str_2p3t4
           => /\ pc = "evaluated"
              /\ postfix = << <<"2">>, <<"3">>, <<"+">>, <<"4">>, <<"*">> >>
              /\ ret = Num(20)
    /\ pc \in {"threw", "evaluated"} /\ input = Str_2p3x4
           => /\ pc = "evaluated"
              /\ postfix = << <<"2">>, <<"3">>, <<"4">>, <<"*">>, <<"+">> >>
              /\ ret = Num(14)

C3_Tokenizer ==
    /\ pc # "threw"
    /\ pc = "tokenized" => stream = RefTokens(input)

\* C4: while compute_infix runs, and when it has returned, the output queue holds
\* no more entries than the stream it was called on held tokens.
C4_BoundedOutput ==
    pc \in {"infix", "rparen", "converted"} => Len(q) <= Len(tokens)

\* C5: when ")" is being processed and the operator stack is empty, the next step
\* raises MismatchedParenthesesError and adds nothing to the output.
C5_UnmatchedRightParen ==
    [][pc = "rparen" /\ isEmpty(s) => err' = "MismatchedParenthesesError" /\ q' = q]_vars

\* C6: when the stream is exhausted and a "(" is still on the operator stack, the
\* next step raises MismatchedParenthesesError and hands no postfix to the
\* evaluator.
C6_UnclosedLeftParen ==
    [][pc = "infix" /\ isEmpty(stream) /\ CountLeft(s) > 0
          => err' = "MismatchedParenthesesError" /\ pc' # "converted"]_vars

\* The operand stack after the postfix tokens from i on, -1 once an operator has
\* found fewer than two operands.
RECURSIVE Operands(_, _, _)
Operands(seq, i, depth) ==
    IF i > Len(seq) THEN depth
    ELSE IF ~isNaN(seq[i]) THEN Operands(seq, i + 1, depth + 1)
    ELSE IF depth < 2 THEN -1
    ELSE Operands(seq, i + 1, depth - 1)

\* C7: compute_rpn returns only when no operator found fewer than two operands and
\* exactly one operand is left; otherwise it raises MalformedExpressionError.
C7_MalformedPostfix ==
    pc = "evaluated" /\ postfix # <<>> /\ Operands(postfix, 1, 0) # 1
        => err = "MalformedExpressionError"

\* C8: after clear() the stream, the output queue and the operator stack are empty.
C8_ClearEmptiesAll ==
    pc = "cleared" => isEmpty(stream) /\ isEmpty(q) /\ isEmpty(s)

\* C9: when calculate() has ended, by returning or by raising, the stream, the
\* output queue and the operator stack are empty, so the next evaluation starts
\* from its own tokens alone.
C9_EndsClean ==
    /\ pc \in {"returned", "threw"} => isEmpty(stream) /\ isEmpty(q) /\ isEmpty(s)
    /\ pc = "tokenized" => stream = makeString(input).tokens /\ isEmpty(q) /\ isEmpty(s)

C9_Witness ==
    /\ pc = "threw"
    /\ err = "TypeError"
    /\ output = Str_2p3t4
    /\ isEmpty(stream)

\* C10: the operator branch of compute_infix never pops a "(" into the output queue.
C10_ParenNeverCompared ==
    [][pc = "infix" /\ ~isEmpty(stream) /\ isNaN(dequeue(stream))
          /\ dequeue(stream) \notin {<<"(">>, <<")">>}
          => CountLeft(q') = CountLeft(q)]_vars

====
